---- MODULE Spec2Model ----
(***************************************************************************)
(* StartUpLens (src/app.py): a Streamlit script that reads and edits the   *)
(* `startups` collection of a MongoDB database.                            *)
(*                                                                         *)
(* The model holds the collection, the process-wide client cache, the     *)
(* configuration, the reachability of the store, and one browser session  *)
(* whose script runs are the actions.  Text is a sequence of one-character *)
(* strings, so that case folding, prefixes and pattern matching are       *)
(* computed rather than assumed.  Stored values are tagged BSON values.    *)
(***************************************************************************)
EXTENDS Integers, Sequences, FiniteSets, TLC

VARIABLES
    startups,     \* the `startups` collection: documents in natural order
    secrets,      \* st.secrets: a record that may hold mongo.uri
    environ,      \* os.environ: a record that may hold MONGO_URI
    reachable,    \* whether the store answers connections and calls
    clientCache,  \* st.cache_resource of get_mongo_client: uri -> result
    handshakes,   \* connect-and-ping attempts made so far, per uri
    writes,       \* write operations the store has applied so far
    pc,           \* position of the session's current script run
    run           \* what the current / last script run has rendered

vars == <<startups, secrets, environ, reachable, clientCache, handshakes, writes, pc, run>>

----------------------------------------------------------------------------
(* Text *)

UpperAlpha == <<"A","B","C","D","E","F","G","H","I","J","K","L","M",
                "N","O","P","Q","R","S","T","U","V","W","X","Y","Z">>
LowerAlpha == <<"a","b","c","d","e","f","g","h","i","j","k","l","m",
                "n","o","p","q","r","s","t","u","v","w","x","y","z">>
DigitChars == <<"0","1","2","3","4","5","6","7","8","9">>

Range(s) == {s[i] : i \in DOMAIN s}

LowerOf == [c \in Range(UpperAlpha) |->
              LowerAlpha[CHOOSE i \in DOMAIN UpperAlpha : UpperAlpha[i] = c]]
UpperOf == [c \in Range(LowerAlpha) |->
              UpperAlpha[CHOOSE i \in DOMAIN LowerAlpha : LowerAlpha[i] = c]]

ToLowerChar(c) == IF c \in DOMAIN LowerOf THEN LowerOf[c] ELSE c
ToUpperChar(c) == IF c \in DOMAIN UpperOf THEN UpperOf[c] ELSE c

\* str.lower() / $toLower, and str.upper()
Lower(s) == [i \in DOMAIN s |-> ToLowerChar(s[i])]
Upper(s) == [i \in DOMAIN s |-> ToUpperChar(s[i])]

IsDigit(c) == c \in Range(DigitChars)
DigitVal(c) == (CHOOSE i \in DOMAIN DigitChars : DigitChars[i] = c) - 1
Digit(n) == DigitChars[n + 1]

\* The first n characters of s (all of s when it is shorter).
Prefix(s, n) == SubSeq(s, 1, IF Len(s) < n THEN Len(s) ELSE n)

\* Order of two texts as the store sorts strings: character by character.
CharCode(c) ==
    IF IsDigit(c) THEN 48 + DigitVal(c)
    ELSE IF c \in DOMAIN LowerOf
         THEN 64 + (CHOOSE i \in DOMAIN UpperAlpha : UpperAlpha[i] = c)
    ELSE IF c \in DOMAIN UpperOf
         THEN 96 + (CHOOSE i \in DOMAIN LowerAlpha : LowerAlpha[i] = c)
    ELSE IF c = " " THEN 32 ELSE IF c = "(" THEN 40 ELSE IF c = ")" THEN 41
    ELSE IF c = "-" THEN 45 ELSE IF c = "." THEN 46 ELSE 47

StrLess(a, b) ==
    \E k \in 1..(Len(a) + 1) :
        /\ k <= Len(b)
        /\ \A j \in 1..(k - 1) : a[j] = b[j]
        /\ (k = Len(a) + 1 \/ CharCode(a[k]) < CharCode(b[k]))

----------------------------------------------------------------------------
(* BSON values: a stored field is absent from its document, or holds one  *)
(* of these.                                                               *)

Null    == [t |-> "null"]
Missing == [t |-> "missing"]
Num(n)  == [t |-> "num", v |-> n]
Str(s)  == [t |-> "str", v |-> s]
Arr(a)  == [t |-> "arr", v |-> a]
Doc(f)  == [t |-> "doc", v |-> f]

\* "$field" on a document (a record of fields): Missing when absent.
Field(fields, f) == IF f \in DOMAIN fields THEN fields[f] ELSE Missing

\* "$outer.inner": Missing unless outer holds an embedded document.
Path(fields, outer, inner) ==
    LET o == Field(fields, outer)
    IN IF o.t = "doc" THEN Field(o.v, inner) ELSE Missing

\* {"$ifNull": [v, default]}
IfNull(v, default) == IF v.t \in {"null", "missing"} THEN default ELSE v

\* What $sum adds for one value: non-numeric values are ignored.
SumTerm(v) == IF v.t = "num" THEN v.v ELSE 0

\* {"$substr": [v, 0, n]}: null and missing give the empty string.
Substr(v, n) == IF v.t = "str" THEN Prefix(v.v, n) ELSE <<>>

\* {"$toLower": v}
ToLower(v) == IF v.t = "str" THEN Lower(v.v) ELSE <<>>

\* dict.get(key): None (Null) when the key is absent or holds null.
PyGet(fields, f) == IF Field(fields, f).t = "missing" THEN Null ELSE fields[f]

RECURSIVE DigitsValue(_)
DigitsValue(s) ==
    IF s = <<>> THEN 0
    ELSE 10 * DigitsValue(SubSeq(s, 1, Len(s) - 1)) + DigitVal(s[Len(s)])

\* safe_num: float(x or 0), and 0.0 when float() raises.
safe_num(x) ==
    IF x.t = "num" THEN x.v
    ELSE IF x.t = "str" /\ x.v # <<>> /\ \A i \in DOMAIN x.v : IsDigit(x.v[i])
         THEN DigitsValue(x.v)
    ELSE 0

RECURSIVE SumSeq(_)
SumSeq(s) == IF s = <<>> THEN 0 ELSE s[1] + SumSeq(Tail(s))

RECURSIVE Flatten(_)
Flatten(ss) == IF ss = <<>> THEN <<>> ELSE ss[1] \o Flatten(Tail(ss))

\* The elements of a set of integers, ascending.
Ascending(I) ==
    [k \in 1..Cardinality(I) |->
        CHOOSE i \in I : Cardinality({j \in I : j < i}) = k - 1] \o <<>>

----------------------------------------------------------------------------
(* Regular expressions as the store evaluates {"$regex": p, "$options":   *)
(* "i"}, for patterns made of literal characters, "." (any character) and *)
(* "(" ")" (a group, which consumes nothing itself).  A pattern whose      *)
(* parentheses do not balance does not compile and the call fails.         *)

RECURSIVE ParenDepthOk(_, _)
ParenDepthOk(p, depth) ==
    IF p = <<>> THEN depth = 0
    ELSE IF p[1] = "(" THEN ParenDepthOk(Tail(p), depth + 1)
    ELSE IF p[1] = ")" THEN depth > 0 /\ ParenDepthOk(Tail(p), depth - 1)
    ELSE ParenDepthOk(Tail(p), depth)

RegexCompiles(p) == ParenDepthOk(p, 0)

IsAtom(c) == c \notin {"(", ")"}
RegexAtoms(p) == SelectSeq(p, IsAtom)

RegexMatchAt(atoms, s, off) ==
    \A j \in DOMAIN atoms :
        \/ atoms[j] = "."
        \/ ToLowerChar(atoms[j]) = ToLowerChar(s[off + j])

\* Unanchored, case-insensitive search of text s for pattern p.
RegexSearch(p, s) ==
    LET atoms == RegexAtoms(p)
    IN \E off \in 0..(Len(s) - Len(atoms)) : RegexMatchAt(atoms, s, off)

\* {"$regex": "^[0-9]{4}$"} on a text
FourDigits(s) == Len(s) = 4 /\ \A i \in 1..4 : IsDigit(s[i])

----------------------------------------------------------------------------
(* The collection API the script calls.  A filter is a record that may    *)
(* hold name_regex (a pattern for startup_name), startup_name, industry   *)
(* and country (exact values).                                             *)

Matches(d, q) ==
    /\ "name_regex" \in DOMAIN q =>
          /\ Field(d, "startup_name").t = "str"
          /\ RegexSearch(q.name_regex, d.startup_name.v)
    /\ "startup_name" \in DOMAIN q => Field(d, "startup_name") = Str(q.startup_name)
    /\ "industry" \in DOMAIN q => Field(d, "industry") = Str(q.industry)
    /\ "country" \in DOMAIN q => Field(d, "country") = Str(q.country)

\* Whether the store accepts the filter at all.
FilterOk(q) == "name_regex" \in DOMAIN q => RegexCompiles(q.name_regex)

MatchingIndexes(coll, q) == {i \in DOMAIN coll : Matches(coll[i], q)}

\* find(q).limit(n): the first n matching documents in natural order.
Find(coll, q, n) ==
    LET hits == Ascending(MatchingIndexes(coll, q))
    IN [k \in 1..(IF Len(hits) < n THEN Len(hits) ELSE n) |-> coll[hits[k]]]

\* The position of the first document matching q, 0 when there is none.
FirstMatch(coll, q) ==
    IF MatchingIndexes(coll, q) = {} THEN 0
    ELSE CHOOSE i \in MatchingIndexes(coll, q) :
            \A j \in MatchingIndexes(coll, q) : i <= j

\* find_one(q): the document, or Null.
FindOne(coll, q) ==
    IF FirstMatch(coll, q) = 0 THEN Null ELSE Doc(coll[FirstMatch(coll, q)])

\* insert_one(doc)
InsertOne(coll, d) == Append(coll, d)

DeleteOne_every_match(coll, q) ==
    LET keep == Ascending(DOMAIN coll \ MatchingIndexes(coll, q))
    IN [k \in DOMAIN keep |-> coll[keep[k]]]

\* delete_one(q): the collection afterwards.
DeleteOne(coll, q) ==
    LET i == FirstMatch(coll, q)
    IN IF i = 0 THEN coll
       ELSE [k \in 1..(Len(coll) - 1) |-> IF k < i THEN coll[k] ELSE coll[k + 1]]

\* The document d with field f set to value v (added when absent).
WithField(d, f, v) == [g \in DOMAIN d \cup {f} |-> IF g = f THEN v ELSE d[g]]

UpdateOneSet_replaces_document(coll, q, f, v) ==
    LET i == FirstMatch(coll, q)
    IN IF i = 0 THEN coll
       ELSE [coll EXCEPT ![i] = [g \in {"startup_name", f} |->
                                   IF g = f THEN v ELSE coll[i].startup_name]]

\* update_one(q, {"$set": {f: v}}): the collection afterwards.
UpdateOneSet(coll, q, f, v) ==
    LET i == FirstMatch(coll, q)
    IN IF i = 0 THEN coll ELSE [coll EXCEPT ![i] = WithField(coll[i], f, v)]

\* Whether {"$push": {f: v}} applies to d: f must be absent or an array.
PushOk(d, f) == Field(d, f).t \in {"missing", "arr"}

\* update_one(q, {"$push": {f: v}}): the collection afterwards.
UpdateOnePush(coll, q, f, v) ==
    LET i == FirstMatch(coll, q)
        old == IF i = 0 THEN Missing ELSE Field(coll[i], f)
    IN IF i = 0 \/ ~PushOk(coll[i], f) THEN coll
       ELSE [coll EXCEPT ![i] =
                WithField(coll[i], f,
                          Arr(IF old.t = "arr" THEN Append(old.v, v) ELSE <<v>>))]

\* distinct(f): the values of f over the collection, nulls included.
Distinct(coll, f) ==
    {Field(coll[i], f) : i \in {j \in DOMAIN coll : Field(coll[j], f).t # "missing"}}

\* estimated_document_count()
EstimatedDocumentCount(coll) == Len(coll)

----------------------------------------------------------------------------
(* Aggregation stages *)

\* {"$unwind": "$funding_rounds"} on one document.
UnwindDoc(d) ==
    LET a == Field(d, "funding_rounds")
    IN IF a.t \in {"missing", "null"} THEN <<>>
       ELSE IF a.t = "arr"
            THEN [i \in 1..Len(a.v) |-> [d EXCEPT !.funding_rounds = a.v[i]]]
       ELSE <<d>>

\* {"$unwind": "$funding_rounds"}
Unwind(docs) == Flatten([i \in DOMAIN docs |-> UnwindDoc(docs[i])] \o <<>>)

\* {"$group": {"_id": Key, acc: {"$sum": Val}}}: one entry per distinct
\* key, listed in order of first appearance.
Group(keys, vals) ==
    LET firsts == Ascending({i \in DOMAIN keys : \A j \in 1..(i - 1) : keys[j] # keys[i]})
    IN [k \in DOMAIN firsts |->
          [id |-> keys[firsts[k]],
           acc |-> SumSeq([i \in DOMAIN keys |->
                             IF keys[i] = keys[firsts[k]] THEN vals[i] ELSE 0])]] \o <<>>

\* The order a $sort specification asks for: a goes before b.
Less(by, a, b) ==
    CASE by = "acc_desc" -> a.acc > b.acc
      [] by = "acc_asc"  -> a.acc < b.acc
      [] by = "id_asc"   -> StrLess(a.id.v, b.id.v)

\* {"$sort": by}.  Entries that the sort key does not order keep whichever
\* relative order the store produces; tie selects one of the two extreme
\* outcomes.
Sort(groups, by, tie) ==
    LET n == Len(groups)
        Before(j, i) ==
            \/ Less(by, groups[j], groups[i])
            \/ /\ ~Less(by, groups[i], groups[j])
               /\ IF tie = "first" THEN j < i ELSE j > i
        rank == [i \in 1..n |-> Cardinality({j \in 1..n : Before(j, i)})] \o <<>>
    IN [k \in 1..n |-> groups[CHOOSE i \in 1..n : rank[i] = k - 1]] \o <<>>

\* {"$limit": n}
Limit(groups, n) == Prefix(groups, n)

TieBreaks == {"first", "last"}

AmountOfRow(row) == SumTerm(IfNull(Path(row, "funding_rounds", "amount"), Num(0)))
One(row) == 1
NoKey(row) == Null
IndustryKey(row) == IfNull(Field(row, "industry"), Str(<<"u","n","k","n","o","w","n">>))
CountryKey(row) == IfNull(Field(row, "country"), Str(<<"u","n","k","n","o","w","n">>))
YearOfRow(row) == Str(Substr(Path(row, "funding_rounds", "date"), 4))
RoundTypeKey_as_stored(row) ==
    IfNull(Path(row, "funding_rounds", "round_type"), Str(<<"u","n","k","n","o","w","n">>))
RoundTypeKey(row) ==
    Str(ToLower(IfNull(Path(row, "funding_rounds", "round_type"),
                       Str(<<"u","n","k","n","o","w","n">>))))
HasYear_no_match_stage(row) == TRUE
HasYear(row) == FourDigits(YearOfRow(row).v)

IndustryLimit == 10
YearlyLimit == 30
CountryLimit == 10
RoundsLimit == 8
SearchLimit == 50
MatchLimit == 10

\* The keys and the summands a $group stage computes from its input rows.
NoKeys(rows) == [i \in DOMAIN rows |-> NoKey(rows[i])] \o <<>>
IndustryKeys(rows) == [i \in DOMAIN rows |-> IndustryKey(rows[i])] \o <<>>
CountryKeys(rows) == [i \in DOMAIN rows |-> CountryKey(rows[i])] \o <<>>
YearKeys(rows) == [i \in DOMAIN rows |-> YearOfRow(rows[i])] \o <<>>
RoundTypeKeys(rows) == [i \in DOMAIN rows |-> RoundTypeKey(rows[i])] \o <<>>
Amounts(rows) == [i \in DOMAIN rows |-> AmountOfRow(rows[i])] \o <<>>
Ones(rows) == [i \in DOMAIN rows |-> One(rows[i])] \o <<>>

pipeline_total_no_unwind(coll) == Group(NoKeys(coll), Amounts(coll))

\* Dashboard, lines 154-157
pipeline_total(coll) ==
    LET rows == Unwind(coll) IN Group(NoKeys(rows), Amounts(rows))

pipeline_industry_ascending(coll, tie) ==
    LET rows == Unwind(coll)
    IN Limit(Sort(Group(IndustryKeys(rows), Amounts(rows)), "acc_asc", tie), IndustryLimit)

\* Dashboard, lines 183-191
pipeline_industry(coll, tie) ==
    LET rows == Unwind(coll)
    IN Limit(Sort(Group(IndustryKeys(rows), Amounts(rows)), "acc_desc", tie), IndustryLimit)

\* Dashboard, lines 212-219
pipeline_yearly(coll, tie) ==
    LET rows == SelectSeq(Unwind(coll), HasYear)
    IN Limit(Sort(Group(YearKeys(rows), Amounts(rows)), "id_asc", tie), YearlyLimit)

\* Dashboard, lines 237-245
pipeline_country(coll, tie) ==
    LET rows == Unwind(coll)
    IN Limit(Sort(Group(CountryKeys(rows), Amounts(rows)), "acc_desc", tie), CountryLimit)

\* Dashboard, lines 266-274
pipeline_rounds(coll, tie) ==
    LET rows == Unwind(coll)
    IN Limit(Sort(Group(RoundTypeKeys(rows), Ones(rows)), "acc_desc", tie), RoundsLimit)

\* total_funding = res_total[0]["total"] if res_total else 0
total_funding(res_total) == IF res_total # <<>> THEN res_total[1].acc ELSE 0

\* The per-record total of the search and delete pages:
\* sum(safe_num(r.get("amount")) for r in s.get("funding_rounds", []))
RoundsOf(d) ==
    LET a == Field(d, "funding_rounds")
    IN IF a.t = "arr" THEN a.v ELSE <<>>

record_total(d) ==
    SumSeq([i \in DOMAIN RoundsOf(d) |-> safe_num(PyGet(RoundsOf(d)[i].v, "amount"))])

----------------------------------------------------------------------------
(* Connection helpers, lines 42-104 *)

Uris == {"mongodb+srv://a", "mongodb+srv://b"}

\* A Python value is falsy when it is None or the empty string.
Truthy(u) == u.t = "str" /\ u.v # ""

\* _read_mongo_uri: st.secrets["mongo"]["uri"] when present and non-empty,
\* otherwise os.getenv("MONGO_URI") (None when unset).
read_mongo_uri ==
    IF "mongo" \in DOMAIN secrets /\ Truthy(PyGet(secrets.mongo, "uri"))
    THEN secrets.mongo.uri
    ELSE PyGet(environ, "MONGO_URI")

ConnectAndPing_without_ping(uri) == "client"

\* The body of get_mongo_client for a uri that is not cached: the client
\* when the ping succeeds, None when anything in the try block raises.
ConnectAndPing(uri) == IF reachable THEN "client" ELSE "None"

\* get_mongo_client(uri) under st.cache_resource: the cached result when
\* there is one, otherwise the result of the body (which is then cached).
get_mongo_client(uri) ==
    IF ~Truthy(uri) THEN "None"
    ELSE IF clientCache[uri.v] # "absent" THEN clientCache[uri.v]
    ELSE ConnectAndPing(uri.v)

\* get_db: (db, error_message)
get_db ==
    LET uri == read_mongo_uri
    IN IF ~Truthy(uri) THEN [db |-> "None", err |-> "uri_not_found"]
       ELSE IF get_mongo_client(uri) = "None"
            THEN [db |-> "None", err |-> "could_not_connect"]
       ELSE [db |-> "StartUpLensDB", err |-> "None"]

CacheAfter_nothing_kept == clientCache

\* The cache and the handshake count after a call of get_db.
CacheAfter ==
    LET uri == read_mongo_uri
    IN IF Truthy(uri) /\ clientCache[uri.v] = "absent"
       THEN [clientCache EXCEPT ![uri.v] = ConnectAndPing(uri.v)]
       ELSE clientCache

HandshakesAfter ==
    LET uri == read_mongo_uri
    IN IF Truthy(uri) /\ clientCache[uri.v] = "absent"
       THEN [handshakes EXCEPT ![uri.v] = @ + 1]
       ELSE handshakes

\* get_collections_or_explain: the startups collection handle, or None
\* after st.error / st.info(err).
get_collections_or_explain ==
    IF get_db.err # "None"
    THEN [collection |-> "None", shown |-> <<"Database not available", get_db.err>>]
    ELSE [collection |-> "startups", shown |-> <<>>]

\* A store call on the handle raises when the store does not answer.
CallOk == reachable

----------------------------------------------------------------------------
(* Texts and stored documents used to start and drive the model *)

T_unknown == <<"u","n","k","n","o","w","n">>
T_Tech    == <<"T","e","c","h">>
T_BioTech == <<"B","i","o","T","e","c","h">>
T_Paren   == <<"A","(","b",")">>
T_tech    == <<"t","e","c","h">>
T_dot     == <<".">>
T_open    == <<"(">>
T_Ghost   == <<"G","h","o","s","t">>
T_AI      == <<"A","I">>
T_ai      == <<"a","i">>
T_bio     == <<"b","i","o">>
T_usa     == <<"u","s","a">>
T_USA     == <<"U","S","A">>
T_GBR     == <<"G","B","R">>
T_Seed    == <<"S","e","e","d">>
T_seed    == <<"s","e","e","d">>
T_Angel   == <<"A","n","g","e","l">>
T_Acquired == <<"A","c","q","u","i","r","e","d">>
T_Inactive == <<"I","n","a","c","t","i","v","e">>
T_NA      == <<"N","/","A">>
T_All     == <<"A","l","l">>

Two(n) == <<Digit(n \div 10), Digit(n % 10)>>
Four(n) == <<Digit(n \div 1000), Digit((n \div 100) % 10), Digit((n \div 10) % 10), Digit(n % 10)>>

\* date.strftime("%Y-%m-%d")
Strftime(d) == Four(d.y) \o <<"-">> \o Two(d.m) \o <<"-">> \o Two(d.d)

MaxWrites == 1
BigDocs == 11
BigRounds == 3

SeedSmall ==
    << [startup_name |-> Str(T_Tech), industry |-> Str(T_ai), country |-> Str(T_USA),
        founded_year |-> Num(2020), status |-> Str(T_Seed), founders |-> Arr(<<>>),
        funding_rounds |-> Arr(<<
            Doc([round_type |-> Str(T_Seed), amount |-> Num(5),
                 date |-> Str(Strftime([y |-> 2021, m |-> 5, d |-> 1]))]),
            Doc([round_type |-> Str(T_seed), amount |-> Null, date |-> Str(T_NA)]) >>)],
       [startup_name |-> Str(T_BioTech), country |-> Str(T_GBR),
        founded_year |-> Num(2019), status |-> Str(T_Acquired),
        funding_rounds |-> Arr(<< Doc([amount |-> Num(3)]) >>)],
       [startup_name |-> Str(T_Tech), industry |-> Str(T_bio), country |-> Str(T_USA),
        status |-> Str(T_Seed), funding_rounds |-> Arr(<<>>)] >>

SeedParen ==
    << [startup_name |-> Str(T_Paren), industry |-> Null, country |-> Str(T_USA),
        founded_year |-> Num(2021), status |-> Str(T_Seed), founders |-> Arr(<<>>),
        funding_rounds |-> Arr(<<
            Doc([round_type |-> Str(T_Angel), amount |-> Num(2),
                 date |-> Str(Strftime([y |-> 2020, m |-> 2, d |-> 29])),
                 valuation |-> Null, investors |-> Arr(<<>>)]) >>)] >>

BigRound(i, k) ==
    LET n == BigRounds * (i - 1) + k
        letter == LowerAlpha[((n - 1) % (RoundsLimit + 1)) + 1]
    IN Doc([round_type |-> Str(<<IF n % 2 = 0 THEN ToUpperChar(letter) ELSE letter>>),
            amount |-> Num(i + k),
            date |-> Str(Strftime([y |-> 1989 + n, m |-> 5, d |-> 1]))])

BigDoc(i) ==
    [startup_name |-> Str(IF i % 2 = 1 THEN T_Tech ELSE T_BioTech),
     industry |-> Str(<<"i", LowerAlpha[i]>>),
     country |-> Str(<<"C", UpperAlpha[i]>>),
     founded_year |-> Num(2000), status |-> Str(T_Seed), founders |-> Arr(<<>>),
     funding_rounds |-> Arr([k \in 1..BigRounds |-> BigRound(i, k)])]

SeedBig == [i \in 1..BigDocs |-> BigDoc(i)]

Seeds == {<<>>, SeedSmall, SeedParen}
ReportSeeds == {<<>>, SeedSmall, SeedParen, SeedBig}

Configs ==
    { [secrets |-> [mongo |-> [uri |-> Str("mongodb+srv://a")]],
       environ |-> [MONGO_URI |-> Str("mongodb+srv://b")]],
      [secrets |-> [mongo |-> [uri |-> Str("")]],
       environ |-> [MONGO_URI |-> Str("mongodb+srv://b")]],
      [secrets |-> [other |-> Null], environ |-> [PATH |-> Str("/bin")]],
      [secrets |-> [mongo |-> [host |-> Null]], environ |-> [MONGO_URI |-> Str("")]] }

NoRun == [page |-> "none", shown |-> <<>>, calls |-> <<>>]

InitWith(seeds) ==
    /\ startups \in seeds
    /\ \E c \in Configs : secrets = c.secrets /\ environ = c.environ
    /\ reachable \in BOOLEAN
    /\ clientCache = [u \in Uris |-> "absent"]
    /\ handshakes = [u \in Uris |-> 0]
    /\ writes = 0
    /\ pc = "idle"
    /\ run = NoRun

Init == InitWith(Seeds)
InitReport == InitWith(ReportSeeds)

----------------------------------------------------------------------------
(* Script runs.  Every run starts with get_collections_or_explain; a run  *)
(* that gets no collection handle renders the diagnostic and stops.        *)

Connect ==
    /\ clientCache' = CacheAfter
    /\ handshakes' = HandshakesAfter

\* The store applies a write that turns the collection into after.  The
\* model follows the collection through at most MaxWrites changes.
Apply(after) ==
    /\ startups' = after
    /\ after # startups => writes < MaxWrites
    /\ writes' = IF after # startups THEN writes + 1 ELSE writes

\* The page stops at st.stop() because no handle was obtained.
Unavailable(page) ==
    /\ get_collections_or_explain.collection = "None"
    /\ run' = [page |-> page, shown |-> get_collections_or_explain.shown, calls |-> <<>>]
    /\ pc' = "idle"
    /\ Connect
    /\ UNCHANGED <<startups, writes, secrets, environ, reachable>>

\* agg_to_xy: parallel label / value lists
agg_to_xy(records) ==
    [x |-> [i \in DOMAIN records |-> records[i].id],
     y |-> [i \in DOMAIN records |-> records[i].acc]]

NonEmpty(values) == {v \in values : v.t = "str" /\ v.v # <<>>}

\* Dashboard page, lines 135-287
Dashboard ==
    /\ pc = "idle"
    /\ \/ Unavailable("dashboard")
       \/ /\ get_collections_or_explain.collection # "None"
          /\ \E tie \in TieBreaks :
               run' = [page |-> "dashboard", shown |-> <<>>,
                       calls |-> <<"estimated_document_count", "aggregate", "distinct",
                                   "distinct", "aggregate", "aggregate", "aggregate",
                                   "aggregate">>,
                       total_startups |->
                           IF CallOk THEN EstimatedDocumentCount(startups) ELSE 0,
                       total_funding |->
                           IF CallOk THEN total_funding(pipeline_total(startups)) ELSE 0,
                       industries |->
                           IF CallOk THEN Cardinality(NonEmpty(Distinct(startups, "industry")))
                           ELSE 0,
                       countries |->
                           IF CallOk THEN Cardinality(NonEmpty(Distinct(startups, "country")))
                           ELSE 0,
                       industry_data |->
                           IF CallOk THEN agg_to_xy(pipeline_industry(startups, tie))
                           ELSE agg_to_xy(<<>>),
                       yearly_data |->
                           IF CallOk THEN agg_to_xy(pipeline_yearly(startups, tie))
                           ELSE agg_to_xy(<<>>),
                       country_data |->
                           IF CallOk THEN agg_to_xy(pipeline_country(startups, tie))
                           ELSE agg_to_xy(<<>>),
                       round_data |->
                           IF CallOk THEN agg_to_xy(pipeline_rounds(startups, tie))
                           ELSE agg_to_xy(<<>>)]
          /\ pc' = "idle"
          /\ Connect
          /\ UNCHANGED <<startups, writes, secrets, environ, reachable>>

\* The search form as filled in: name text, industry filter, country filter.
SearchRequests ==
    { <<T_tech, T_All, T_All>>, <<T_Tech, T_All, T_All>>, <<T_dot, T_All, T_All>>, <<T_open, T_All, T_All>>,
      <<T_Paren, T_All, T_All>>, <<T_Ghost, T_All, T_All>>, <<<<>>, T_All, T_All>>,
      <<T_tech, T_ai, T_USA>>, <<<<>>, T_All, T_USA>> }

\* The options of a filter selectbox: "All" and the non-empty distinct values.
Options(values) == {T_All} \cup {v.v : v \in NonEmpty(values)}

\* The filter built at lines 313-319.
query(search_name, selected_industry, selected_country) ==
    LET byName     == IF search_name # <<>> THEN {"name_regex"} ELSE {}
        byIndustry == IF selected_industry # T_All THEN {"industry"} ELSE {}
        byCountry  == IF selected_country # T_All THEN {"country"} ELSE {}
    IN [f \in byName \cup byIndustry \cup byCountry |->
          IF f = "name_regex" THEN search_name
          ELSE IF f = "industry" THEN selected_industry
          ELSE selected_country]

\* One expander of the result list, lines 328-347.
Card(s) ==
    LET rounds == RoundsOf(s)
    IN [startup_name |-> Field(s, "startup_name"),
        total |-> record_total(s),
        rounds |-> Len(rounds),
        latest |-> IF rounds # <<>> THEN <<rounds[Len(rounds)]>> ELSE <<>>,
        latest_amount |->
            IF rounds # <<>>
            THEN <<safe_num(PyGet(rounds[Len(rounds)].v, "amount"))>> ELSE <<>>]

\* Search page, lines 291-349
Search ==
    /\ pc = "idle"
    /\ \/ Unavailable("search")
       \/ /\ get_collections_or_explain.collection # "None"
          /\ \E req \in SearchRequests :
               LET search_name == req[1]
                   selected_industry == req[2]
                   selected_country == req[3]
                   industry_opts == IF CallOk THEN Options(Distinct(startups, "industry"))
                                    ELSE {T_All}
                   country_opts == IF CallOk THEN Options(Distinct(startups, "country"))
                                   ELSE {T_All}
                   q == query(search_name, selected_industry, selected_country)
                   results == IF CallOk /\ FilterOk(q)
                              THEN Find(startups, q, SearchLimit) ELSE <<>>
               IN /\ selected_industry \in industry_opts
                  /\ selected_country \in country_opts
                  /\ run' = [page |-> "search",
                        shown |-> IF results = <<>> THEN <<"No startups found">> ELSE <<>>,
                        calls |-> <<"distinct", "distinct", "find">>,
                        search_name |-> search_name,
                        selected_industry |-> selected_industry,
                        selected_country |-> selected_country,
                        results |-> results,
                        cards |-> [i \in DOMAIN results |-> Card(results[i])] \o <<>>]
          /\ pc' = "idle"
          /\ Connect
          /\ UNCHANGED <<startups, writes, secrets, environ, reachable>>

\* The add form as submitted.  Founders, investors and valuation are left
\* at their defaults (empty, empty, 0).
AddForms ==
    LET base == [startup_name |-> T_Tech, industry |-> T_AI, country |-> T_usa,
                 founded_year |-> 2024, status |-> T_Seed, round_type |-> T_Seed,
                 amount |-> 5, funding_date |-> [y |-> 2024, m |-> 1, d |-> 15]]
    IN { base,
         [base EXCEPT !.startup_name = T_Paren, !.industry = T_bio, !.round_type = <<>>],
         [base EXCEPT !.startup_name = T_BioTech, !.amount = 0, !.status = T_Acquired],
         [base EXCEPT !.startup_name = <<>>],
         [base EXCEPT !.industry = <<>>],
         [base EXCEPT !.country = <<>>] }

FormValid_name_only(form) == form.startup_name # <<>>

\* Line 385: the required fields are all non-empty.
FormValid(form) ==
    form.startup_name # <<>> /\ form.industry # <<>> /\ form.country # <<>>

\* The document built at lines 388-404.
NewDoc(form) ==
    [startup_name |-> Str(form.startup_name),
     industry |-> Str(Lower(form.industry)),
     country |-> Str(Upper(form.country)),
     founded_year |-> Num(form.founded_year),
     status |-> Str(form.status),
     founders |-> Arr(<<>>),
     funding_rounds |->
        Arr(IF form.round_type # <<>> /\ form.amount > 0
            THEN << Doc([round_type |-> Str(form.round_type),
                         amount |-> Num(form.amount),
                         date |-> Str(Strftime(form.funding_date)),
                         valuation |-> Null,
                         investors |-> Arr(<<>>)]) >>
            ELSE <<>>)]

\* Add page with the form submitted, lines 353-411
AddStartup(form) ==
    /\ pc = "idle"
    /\ \/ Unavailable("add")
       \/ /\ get_collections_or_explain.collection # "None"
          /\ IF ~FormValid(form)
             THEN /\ run' = [page |-> "add", form |-> form, calls |-> <<>>,
                             shown |-> <<"Please fill in all required fields">>]
                  /\ UNCHANGED <<startups, writes>>
             ELSE IF CallOk
             THEN /\ Apply(InsertOne(startups, NewDoc(form)))
                  /\ run' = [page |-> "add", form |-> form, calls |-> <<"insert_one">>,
                             shown |-> <<"Successfully added startup">>]
             ELSE /\ run' = [page |-> "add", form |-> form, calls |-> <<"insert_one">>,
                             shown |-> <<"Error adding startup">>]
                  /\ UNCHANGED <<startups, writes>>
          /\ pc' = "idle"
          /\ Connect
          /\ UNCHANGED <<secrets, environ, reachable>>

PageSearches == {<<>>, T_dot, T_Ghost}
StatusChoices == {T_Seed, T_Inactive}

\* [m["startup_name"] for m in matches]
NamesOf(matches) == [i \in DOMAIN matches |-> matches[i].startup_name.v] \o <<>>

\* The search box and the select box of the update and delete pages,
\* lines 421-432 and 497-508: find by pattern, then choose among the names.
\* first is what the select box offers before the names ("" on the delete
\* page, nothing on the update page).
OpenPage(page, first) ==
    /\ pc = "idle"
    /\ \/ Unavailable(page)
       \/ /\ get_collections_or_explain.collection # "None"
          /\ \E search \in PageSearches :
               LET q == [name_regex |-> search]
                   matches == IF CallOk /\ FilterOk(q)
                              THEN Find(startups, q, MatchLimit) ELSE <<>>
               IN IF search = <<>>
                  THEN /\ run' = [page |-> page, shown |-> <<>>, calls |-> <<>>]
                       /\ pc' = "idle"
                  ELSE IF matches = <<>>
                  THEN /\ run' = [page |-> page, calls |-> <<"find">>,
                                  shown |-> <<"No matching startups found.">>]
                       /\ pc' = "idle"
                  ELSE \E selected \in first \cup Range(NamesOf(matches)) :
                       /\ run' = [page |-> page, shown |-> <<>>, calls |-> <<"find">>,
                                  search |-> search, names |-> NamesOf(matches),
                                  selected |-> selected]
                       /\ pc' = IF selected = <<>> THEN "idle" ELSE "selected"
          /\ Connect
          /\ UNCHANGED <<startups, writes, secrets, environ, reachable>>

\* s = find_one({"startup_name": selected}) and the heading built from
\* s["startup_name"], lines 433-435 and 509-511.  The call is not inside a
\* try block, and s is None when no document has the name: either way the
\* run ends with an uncaught exception.
Lookup ==
    /\ pc = "selected"
    /\ LET s == FindOne(startups, [startup_name |-> run.selected])
       IN IF ~CallOk \/ s = Null
          THEN /\ run' = [page |-> run.page, calls |-> Append(run.calls, "find_one"),
                          shown |-> <<"uncaught exception">>, selected |-> run.selected]
               /\ pc' = "idle"
          ELSE /\ run' = [page |-> run.page, calls |-> Append(run.calls, "find_one"),
                          shown |-> <<>>, selected |-> run.selected, s |-> s.v]
               /\ pc' = "forms"
    /\ UNCHANGED <<startups, writes, secrets, environ, reachable, clientCache, handshakes>>

UpdateOpen == OpenPage("update", {})
DeleteOpen == OpenPage("delete", {<<>>})

\* update_status_form submitted, lines 444-451
UpdateStatus(new_status) ==
    /\ pc = "forms" /\ run.page = "update"
    /\ LET q == [startup_name |-> run.selected]
           i == FirstMatch(startups, q)
       IN IF CallOk
          THEN /\ Apply(UpdateOneSet(startups, q, "status", Str(new_status)))
               /\ run' = [page |-> "update", form |-> "status", selected |-> run.selected,
                          s |-> run.s, new_status |-> new_status,
                          calls |-> Append(run.calls, "update_one"),
                          matched |-> IF i = 0 THEN 0 ELSE 1,
                          modified |-> IF i = 0 \/ Field(startups[i], "status") = Str(new_status)
                                       THEN 0 ELSE 1,
                          shown |-> <<"Status updated">>]
          ELSE /\ UNCHANGED <<startups, writes>>
               /\ run' = [page |-> "update", form |-> "status", selected |-> run.selected,
                          s |-> run.s, new_status |-> new_status,
                          calls |-> Append(run.calls, "update_one"),
                          matched |-> 0, modified |-> 0,
                          shown |-> <<"Error">>]
    /\ pc' = "idle"
    /\ UNCHANGED <<secrets, environ, reachable, clientCache, handshakes>>

\* The new-round form as submitted (valuation 0, no investors).
RoundForms ==
    { [new_round_type |-> T_Angel, new_amount |-> 7, new_date |-> [y |-> 2019, m |-> 12, d |-> 31]],
      [new_round_type |-> T_Seed, new_amount |-> 0, new_date |-> [y |-> 2024, m |-> 1, d |-> 15]] }

\* round_doc, lines 471-477
round_doc(form) ==
    Doc([round_type |-> Str(form.new_round_type),
         amount |-> Num(form.new_amount),
         date |-> Str(Strftime(form.new_date)),
         valuation |-> Null,
         investors |-> Arr(<<>>)])

\* add_funding_round_form submitted, lines 469-484
AddFundingRound(form) ==
    /\ pc = "forms" /\ run.page = "update"
    /\ LET q == [startup_name |-> run.selected]
           i == FirstMatch(startups, q)
       IN IF CallOk /\ (i = 0 \/ PushOk(startups[i], "funding_rounds"))
          THEN /\ Apply(UpdateOnePush(startups, q, "funding_rounds", round_doc(form)))
               /\ run' = [page |-> "update", form |-> "round", selected |-> run.selected,
                          s |-> run.s, round |-> round_doc(form),
                          calls |-> Append(run.calls, "update_one"),
                          matched |-> IF i = 0 THEN 0 ELSE 1,
                          modified |-> IF i = 0 THEN 0 ELSE 1,
                          shown |-> <<"Added round", "rerun">>]
          ELSE /\ UNCHANGED <<startups, writes>>
               /\ run' = [page |-> "update", form |-> "round", selected |-> run.selected,
                          s |-> run.s, round |-> round_doc(form),
                          calls |-> Append(run.calls, "update_one"),
                          matched |-> 0, modified |-> 0,
                          shown |-> <<"Error">>]
    /\ pc' = "idle"
    /\ UNCHANGED <<secrets, environ, reachable, clientCache, handshakes>>

ConfirmTexts == {<<>>, T_Ghost}
RecordNames == {T_Tech, T_BioTech, T_Paren}

\* The confirmation box and the Confirm Delete button, lines 525-542.
\* The button is disabled unless the typed text equals the selected name;
\* click says whether an enabled button was pressed.
ConfirmDelete(confirm, click) ==
    /\ pc = "forms" /\ run.page = "delete"
    /\ confirm \in ConfirmTexts \cup {run.selected}
    /\ LET q == [startup_name |-> run.selected]
           i == FirstMatch(startups, q)
           disabled == confirm # run.selected
           base == [page |-> "delete", selected |-> run.selected, s |-> run.s,
                    confirm |-> confirm, disabled |-> disabled]
       IN IF disabled \/ ~click
          THEN /\ UNCHANGED <<startups, writes>>
               /\ run' = [f \in DOMAIN base \cup {"calls", "shown", "clicked"} |->
                            IF f = "calls" THEN run.calls
                            ELSE IF f = "clicked" THEN FALSE
                            ELSE IF f = "shown"
                                 THEN IF confirm # <<>> /\ disabled
                                      THEN <<"Name doesn't match. Delete button disabled.">>
                                      ELSE <<>>
                            ELSE base[f]]
          ELSE IF CallOk
          THEN /\ Apply(DeleteOne(startups, q))
               /\ run' = [f \in DOMAIN base \cup {"calls", "shown", "clicked", "deleted_count"} |->
                            IF f = "calls" THEN Append(run.calls, "delete_one")
                            ELSE IF f = "clicked" THEN TRUE
                            ELSE IF f = "deleted_count" THEN IF i = 0 THEN 0 ELSE 1
                            ELSE IF f = "shown"
                                 THEN IF i # 0 THEN <<"Successfully deleted">>
                                      ELSE <<"Failed to delete startup">>
                            ELSE base[f]]
          ELSE /\ UNCHANGED <<startups, writes>>
               /\ run' = [f \in DOMAIN base \cup {"calls", "shown", "clicked"} |->
                            IF f = "calls" THEN Append(run.calls, "delete_one")
                            ELSE IF f = "clicked" THEN TRUE
                            ELSE IF f = "shown" THEN <<"Error">>
                            ELSE base[f]]
    /\ pc' = "idle"
    /\ UNCHANGED <<secrets, environ, reachable, clientCache, handshakes>>

\* The update page rendered with neither form submitted.
UpdateRendered ==
    /\ pc = "forms" /\ run.page = "update"
    /\ pc' = "idle"
    /\ UNCHANGED <<startups, writes, secrets, environ, reachable, clientCache, handshakes, run>>

\* Another session of the application deletes a record (its own Confirm
\* Delete, line 532) while this session is anywhere in its run.
OtherSessionDelete(name) ==
    /\ reachable
    /\ FirstMatch(startups, [startup_name |-> name]) # 0
    /\ Apply(DeleteOne(startups, [startup_name |-> name]))
    /\ UNCHANGED <<secrets, environ, reachable, clientCache, handshakes, pc, run>>

\* The store becomes unreachable, or reachable again.
StoreOutage ==
    /\ reachable' = ~reachable
    /\ UNCHANGED <<startups, writes, secrets, environ, clientCache, handshakes, pc, run>>

Next ==
    \/ Dashboard
    \/ Search
    \/ \E form \in AddForms : AddStartup(form)
    \/ UpdateOpen
    \/ DeleteOpen
    \/ Lookup
    \/ \E new_status \in StatusChoices : UpdateStatus(new_status)
    \/ \E form \in RoundForms : AddFundingRound(form)
    \/ UpdateRendered
    \/ \E confirm \in ConfirmTexts \cup RecordNames, click \in BOOLEAN :
          ConfirmDelete(confirm, click)
    \/ \E name \in RecordNames : OtherSessionDelete(name)
    \/ StoreOutage

Spec == Init /\ [][Next]_vars

\* The reporting pages alone, over collections that exceed every limit.
NextReport ==
    \/ Dashboard
    \/ Search
    \/ \E name \in RecordNames : OtherSessionDelete(name)
    \/ StoreOutage

SpecReport == InitReport /\ [][NextReport]_vars

----------------------------------------------------------------------------
(* What the claims speak of, computed from the stored documents directly  *)
(* (no pipeline stage is used below this line except where a claim names  *)
(* the pipeline's result).                                                 *)

\* <<i, k>>: the k-th funding round of the i-th record.
RoundsIn(coll) ==
    UNION {{<<i, k>> : k \in DOMAIN coll[i].funding_rounds.v} :
              i \in {j \in DOMAIN coll : "funding_rounds" \in DOMAIN coll[j]
                                         /\ coll[j].funding_rounds.t = "arr"}}

RoundAt(coll, p) == coll[p[1]].funding_rounds.v[p[2]].v

\* The round's amount, a missing or null amount counting as 0.
AmountAt(coll, p) ==
    IF "amount" \in DOMAIN RoundAt(coll, p) /\ RoundAt(coll, p).amount.t = "num"
    THEN RoundAt(coll, p).amount.v ELSE 0

RECURSIVE AmountOver(_, _)
AmountOver(coll, P) ==
    IF P = {} THEN 0
    ELSE LET p == CHOOSE x \in P : TRUE
         IN AmountAt(coll, p) + AmountOver(coll, P \ {p})

\* The record's industry, a missing or null industry counting as "unknown".
IndustryOf(d) ==
    IF "industry" \in DOMAIN d /\ d.industry.t # "null" THEN d.industry ELSE Str(T_unknown)

\* The four digits the round's date starts with, or <<>> when it does not.
YearAt(coll, p) ==
    LET r == RoundAt(coll, p)
    IN IF /\ "date" \in DOMAIN r
          /\ r.date.t = "str"
          /\ Len(r.date.v) >= 4
          /\ \A j \in 1..4 : r.date.v[j] \in {"0","1","2","3","4","5","6","7","8","9"}
       THEN <<r.date.v[1], r.date.v[2], r.date.v[3], r.date.v[4]>>
       ELSE <<>>

\* The round's round_type as stored, a missing or null one being "unknown".
TypeAt(coll, p) ==
    LET r == RoundAt(coll, p)
    IN IF "round_type" \in DOMAIN r /\ r.round_type.t = "str" THEN r.round_type.v
       ELSE T_unknown

\* Two texts that differ at most in letter case.
SameButCase(a, b) ==
    /\ Len(a) = Len(b)
    /\ \A j \in DOMAIN a :
          \/ a[j] = b[j]
          \/ \E k \in DOMAIN UpperAlpha : {a[j], b[j]} = {UpperAlpha[k], LowerAlpha[k]}

HasUpper(a) == \E j \in DOMAIN a : a[j] \in Range(UpperAlpha)

Min(a, b) == IF a < b THEN a ELSE b

NonIncreasing(s) == \A i \in 1..(Len(s) - 1) : s[i] >= s[i + 1]

\* C1: total_funding() is the sum of amount over every funding round of
\* every record, a missing or null amount counting as 0, and is 0 when no
\* round exists; the per-record total of a search result is the same sum
\* over that record's rounds.
C1_TotalFunding ==
    /\ total_funding(pipeline_total(startups)) = AmountOver(startups, RoundsIn(startups))
    /\ RoundsIn(startups) = {} => total_funding(pipeline_total(startups)) = 0
    /\ \A i \in DOMAIN startups :
          record_total(startups[i]) =
              AmountOver(startups, {p \in RoundsIn(startups) : p[1] = i})
    /\ run.page = "search" /\ run.calls # <<>> =>
          \A i \in DOMAIN run.results :
              run.cards[i].total =
                  AmountOver(run.results, {p \in RoundsIn(run.results) : p[1] = i})

\* A dashboard rendered over a collection that holds a null amount and a
\* round without amount next to numeric ones.
C1_Witness ==
    /\ run.page = "dashboard" /\ run.calls # <<>>
    /\ startups = SeedSmall
    /\ run.total_funding = 8

\* The industries of the records that have at least one funding round.
FundedIndustries(coll) == {IndustryOf(coll[p[1]]) : p \in RoundsIn(coll)}

IndustryTotal(coll, ind) ==
    AmountOver(coll, {p \in RoundsIn(coll) : IndustryOf(coll[p[1]]) = ind})

\* C2 as stated: at most 10 entries in non-increasing order, and exactly as
\* many entries as the records have distinct industries when those are
\* fewer than 10.
C2_AsStated ==
    \A tie \in TieBreaks :
        LET res == pipeline_industry(startups, tie)
            industries == {IndustryOf(startups[i]) : i \in DOMAIN startups}
        IN /\ Len(res) <= 10
           /\ NonIncreasing([i \in DOMAIN res |-> res[i].acc])
           /\ Cardinality(industries) < 10 => Len(res) = Cardinality(industries)

\* C2, amended: top_industries returns at most 10 (industry, summed amount)
\* entries in non-increasing order of summed amount, a missing industry
\* bucketed as "unknown"; the entries are the industries of the records
\* that have at least one funding round, exactly as many as there are such
\* industries when those are fewer than 10, and the 10 largest otherwise.
C2_TopIndustries ==
    \A tie \in TieBreaks :
        LET res == pipeline_industry(startups, tie)
            funded == FundedIndustries(startups)
            listed == {res[i].id : i \in DOMAIN res}
        IN /\ Len(res) = Min(10, Cardinality(funded))
           /\ Cardinality(listed) = Len(res)
           /\ listed \subseteq funded
           /\ \A i \in DOMAIN res : res[i].acc = IndustryTotal(startups, res[i].id)
           /\ NonIncreasing([i \in DOMAIN res |-> res[i].acc])
           /\ \A ind \in funded \ listed :
                 \A i \in DOMAIN res : res[i].acc >= IndustryTotal(startups, ind)

\* A dashboard that lists 10 industries out of more than 10 funded ones.
C2_Witness ==
    /\ run.page = "dashboard" /\ run.calls # <<>>
    /\ Len(run.industry_data.x) = 10
    /\ Cardinality(FundedIndustries(startups)) > 10
    /\ \E tie \in TieBreaks : run.industry_data = agg_to_xy(pipeline_industry(startups, tie))

YearsIn(coll) == {YearAt(coll, p) : p \in RoundsIn(coll)} \ {<<>>}

YearNumber(y) == 1000 * DigitVal(y[1]) + 100 * DigitVal(y[2]) + 10 * DigitVal(y[3]) + DigitVal(y[4])

\* C3: yearly_trend holds a round's amount in bucket Y exactly when the
\* round's date starts with the four digits Y; a round whose date does not
\* start with four digits is in no bucket but still counts in
\* total_funding; the buckets are in ascending year order, the 30 earliest
\* at most.
C3_YearlyTrend ==
    \A tie \in TieBreaks :
        LET res == pipeline_yearly(startups, tie)
            years == YearsIn(startups)
            listed == {res[i].id.v : i \in DOMAIN res}
        IN /\ Len(res) = Min(30, Cardinality(years))
           /\ listed \subseteq years
           /\ \A i \in DOMAIN res :
                 res[i].acc = AmountOver(startups, {p \in RoundsIn(startups) :
                                                       YearAt(startups, p) = res[i].id.v})
           /\ \A i \in 1..(Len(res) - 1) :
                 YearNumber(res[i].id.v) < YearNumber(res[i + 1].id.v)
           /\ \A y \in years \ listed :
                 \A i \in DOMAIN res : YearNumber(res[i].id.v) < YearNumber(y)
           /\ total_funding(pipeline_total(startups)) =
                 AmountOver(startups, {p \in RoundsIn(startups) : YearAt(startups, p) # <<>>})
                 + AmountOver(startups, {p \in RoundsIn(startups) : YearAt(startups, p) = <<>>})

\* A dashboard over rounds dated "2021-05-01", "N/A" and not at all: the
\* trend has the one bucket 2021, the total has all three rounds.
C3_Witness ==
    /\ run.page = "dashboard" /\ run.calls # <<>>
    /\ startups = SeedSmall
    /\ run.yearly_data = [x |-> <<Str(<<"2","0","2","1">>)>>, y |-> <<5>>]
    /\ run.total_funding = 8
    /\ \E p \in RoundsIn(startups) : YearAt(startups, p) = <<>> /\ AmountAt(startups, p) > 0

TypeCount(coll, type) ==
    Cardinality({p \in RoundsIn(coll) : SameButCase(TypeAt(coll, p), type)})

\* C4: round_type_distribution groups rounds by lower-cased round_type, a
\* missing round_type counting as "unknown": rounds whose types differ only
\* in letter case share a bucket, a bucket's count is the number of such
\* rounds, and at most 8 buckets are returned in non-increasing order of
\* count.
C4_RoundTypes ==
    \A tie \in TieBreaks :
        LET res == pipeline_rounds(startups, tie)
            types == {Lower(TypeAt(startups, p)) : p \in RoundsIn(startups)}
        IN /\ Len(res) = Min(8, Cardinality(types))
           /\ \A i \in DOMAIN res :
                 /\ ~HasUpper(res[i].id.v)
                 /\ res[i].acc = TypeCount(startups, res[i].id.v)
                 /\ res[i].acc > 0
                 /\ \A j \in DOMAIN res : SameButCase(res[i].id.v, res[j].id.v) => i = j
           /\ NonIncreasing([i \in DOMAIN res |-> res[i].acc])
           /\ \A p \in RoundsIn(startups) :
                 \/ \E i \in DOMAIN res : SameButCase(res[i].id.v, TypeAt(startups, p))
                 \/ /\ Len(res) = 8
                    /\ \A i \in DOMAIN res : res[i].acc >= TypeCount(startups, TypeAt(startups, p))

\* A dashboard whose distribution counts "Seed" and "seed" as one bucket.
C4_Witness ==
    /\ run.page = "dashboard" /\ run.calls # <<>>
    /\ startups = SeedSmall
    /\ \E i \in DOMAIN run.round_data.x :
          run.round_data.x[i] = Str(T_seed) /\ run.round_data.y[i] = 2

\* The text s contains the text sub, letter case ignored.
ContainsIgnoringCase(s, sub) ==
    \E off \in 0..(Len(s) - Len(sub)) :
        \A j \in DOMAIN sub : SameButCase(<<s[off + j]>>, <<sub[j]>>)

\* The record satisfies every condition the search form supplies.
Satisfies(d, name_substring, industry, country) ==
    /\ name_substring # <<>> =>
          /\ "startup_name" \in DOMAIN d
          /\ d.startup_name.t = "str"
          /\ ContainsIgnoringCase(d.startup_name.v, name_substring)
    /\ industry # T_All => "industry" \in DOMAIN d /\ d.industry = Str(industry)
    /\ country # T_All => "country" \in DOMAIN d /\ d.country = Str(country)

\* C5: search returns only records that satisfy all supplied conditions
\* together (name contains the text ignoring case, industry and country
\* equal their filters unless "All"): no record when none matches, every
\* matching record when at most 50 match, and at most 50 otherwise.
C5_Search ==
    [][(Search /\ run'.calls # <<>> /\ reachable) =>
          LET matching == {i \in DOMAIN startups :
                              Satisfies(startups[i], run'.search_name,
                                        run'.selected_industry, run'.selected_country)}
          IN /\ \A k \in DOMAIN run'.results :
                   Satisfies(run'.results[k], run'.search_name,
                             run'.selected_industry, run'.selected_country)
             /\ Len(run'.results) = Min(50, Cardinality(matching))]_vars

\* The positions of the records whose name is exactly name.
Named(coll, name) ==
    {i \in DOMAIN coll : "startup_name" \in DOMAIN coll[i] /\ coll[i].startup_name = Str(name)}

\* The sequence s without its i-th element.
Without(s, i) == SubSeq(s, 1, i - 1) \o SubSeq(s, i + 1, Len(s))

\* C6: an add submission in which name, industry or country is empty is
\* rejected with a validation message before any insertion is attempted:
\* no store write is issued and the collection is unchanged.
C6_AddRejected ==
    [][\A form \in AddForms :
          (/\ AddStartup(form)
           /\ get_collections_or_explain.collection # "None"
           /\ (form.startup_name = <<>> \/ form.industry = <<>> \/ form.country = <<>>))
          => /\ startups' = startups
             /\ writes' = writes
             /\ run'.calls = <<>>
             /\ run'.shown = <<"Please fill in all required fields">>]_vars

\* The add page after a submission without a name.
C6_Witness ==
    /\ run.page = "add"
    /\ "form" \in DOMAIN run
    /\ run.form.startup_name = <<>>
    /\ run.calls = <<>>
    /\ run.shown = <<"Please fill in all required fields">>

\* C7: delete(name) when no record has exactly that name leaves the
\* collection unchanged and is reported as a non-fatal "not found" outcome,
\* not as an error; when at least one record has the name, exactly one such
\* record is removed and every other record is unchanged.
C7_Delete ==
    [][(ConfirmDelete(run.selected, TRUE) /\ reachable) =>
          /\ pc' = "idle"
          /\ IF Named(startups, run.selected) = {}
             THEN /\ startups' = startups
                  /\ run'.deleted_count = 0
                  /\ run'.shown = <<"Failed to delete startup">>
             ELSE /\ \E i \in Named(startups, run.selected) : startups' = Without(startups, i)
                  /\ run'.deleted_count = 1
                  /\ run'.shown = <<"Successfully deleted">>]_vars

\* Confirm Delete pressed for a record that another session removed after
\* it was looked up.
C7_Witness ==
    /\ run.page = "delete"
    /\ "deleted_count" \in DOMAIN run
    /\ run.deleted_count = 0
    /\ run.shown = <<"Failed to delete startup">>
    /\ Named(startups, run.selected) = {}

\* C8: append_funding_round(name, round) on an existing record, followed
\* by search on that name, shows the record's funding_rounds equal to the
\* previous sequence with the new round as last element, the new round as
\* "latest", and the record's total raised by exactly round.amount.
C8_AppendThenSearch ==
    [][(/\ run.page = "update" /\ "round" \in DOMAIN run /\ run.matched = 1
        /\ Search /\ run'.calls # <<>> /\ reachable
        /\ run'.search_name = run.selected
        /\ run'.selected_industry = T_All /\ run'.selected_country = T_All
        /\ \E i \in Named(startups, run.selected) :
              RoundsOf(startups[i]) = Append(RoundsOf(run.s), run.round))
       => \E k \in DOMAIN run'.results :
             /\ run'.results[k].startup_name = Str(run.selected)
             /\ RoundsOf(run'.results[k]) = Append(RoundsOf(run.s), run.round)
             /\ run'.cards[k].latest = <<run.round>>
             /\ run'.cards[k].latest_amount = <<run.round.v.amount.v>>
             /\ run'.cards[k].total =
                   AmountOver(<<run.s>>, RoundsIn(<<run.s>>)) + run.round.v.amount.v]_vars

\* C9: set_status(name, s) changes only the status field of the matched
\* record, which then has status s; no other field, no other record and
\* not the number of records changes; the same call made again leaves the
\* collection as the first call left it; any status may replace any other.
C9_SetStatus ==
    [][\A new_status \in StatusChoices :
          (UpdateStatus(new_status) /\ reachable) =>
             /\ Len(startups') = Len(startups)
             /\ \A i \in DOMAIN startups :
                   IF i \in Named(startups, run.selected)
                      /\ \A j \in Named(startups, run.selected) : i <= j
                   THEN /\ startups'[i].status = Str(new_status)
                        /\ DOMAIN startups'[i] = DOMAIN startups[i] \cup {"status"}
                        /\ \A f \in DOMAIN startups[i] \ {"status"} :
                              startups'[i][f] = startups[i][f]
                        /\ Field(startups[i], "status") = Str(new_status)
                              => startups' = startups
                   ELSE startups'[i] = startups[i]
             /\ UpdateOneSet(startups', [startup_name |-> run.selected],
                             "status", Str(new_status)) = startups']_vars

\* The same status set a second time: the record already holds the value
\* that only the first call can have given it, and nothing is modified.
C9_Witness ==
    /\ run.page = "update"
    /\ "new_status" \in DOMAIN run
    /\ run.new_status = T_Inactive
    /\ run.matched = 1 /\ run.modified = 0
    /\ run.s.status = Str(T_Inactive)
    /\ writes = 1

\* The connection endpoint the configuration supplies, "" when none.
Endpoint ==
    IF /\ "mongo" \in DOMAIN secrets /\ "uri" \in DOMAIN secrets.mongo
       /\ secrets.mongo.uri.t = "str" /\ secrets.mongo.uri.v # ""
    THEN secrets.mongo.uri.v
    ELSE IF /\ "MONGO_URI" \in DOMAIN environ
            /\ environ.MONGO_URI.t = "str" /\ environ.MONGO_URI.v # ""
         THEN environ.MONGO_URI.v
    ELSE ""

C11_FailuresCaught ==
    run.calls # <<>> =>
        /\ run.shown # <<"uncaught exception">>
        /\ run.calls[Len(run.calls)] = "find_one" /\ pc = "idle"
              => run.shown # <<>>

\* C12: set_status(name, s) or append_funding_round(name, round) issued
\* when no record has exactly that name leaves the collection unchanged
\* and is reported as a non-fatal "not found" outcome, distinct both from
\* a successful update and from a query error.
C12_UpdateNotFound ==
    [][(/\ \/ \E new_status \in StatusChoices : UpdateStatus(new_status)
           \/ \E form \in RoundForms : AddFundingRound(form)
        /\ reachable
        /\ Named(startups, run.selected) = {})
       => /\ startups' = startups
          /\ pc' = "idle"
          /\ run'.matched = 0
          /\ run'.shown \notin {<<"Status updated">>, <<"Added round", "rerun">>, <<"Error">>}]_vars

\* C13: within one process, once acquire has succeeded for an endpoint,
\* every later acquire for it returns the same handle without a new
\* connection and without a new ping, even if the store has become
\* unreachable; connect-and-ping runs at most once per endpoint, and a
\* later outage surfaces only in the store calls, never as a repeated
\* handshake.
C13_HandleCached ==
    [][\A u \in Uris :
          /\ handshakes'[u] <= 1
          /\ handshakes'[u] # handshakes[u] => clientCache[u] = "absent"
          /\ clientCache[u] = "client" =>
                /\ clientCache'[u] = "client"
                /\ handshakes'[u] = handshakes[u]
                /\ u = Endpoint =>
                      /\ get_db = [db |-> "StartUpLensDB", err |-> "None"]
                      /\ get_collections_or_explain.collection = "startups"
                      /\ (pc = "idle" /\ run' # run) =>
                            /\ run'.calls # <<>> \/ run'.page \in {"add", "update", "delete"}
                            /\ run'.shown = <<>> \/ run'.shown[1] # "Database not available"]_vars

\* A dashboard run made during an outage with the handle obtained earlier:
\* the store calls are issued and fail, one handshake has taken place.
C13_Witness ==
    /\ run.page = "dashboard"
    /\ run.calls # <<>>
    /\ ~reachable
    /\ Endpoint # ""
    /\ clientCache[Endpoint] = "client"
    /\ handshakes[Endpoint] = 1
    /\ startups # <<>>
    /\ run.total_startups = 0

====
